---- MODULE Spec2Model ----
(***************************************************************************)
(* A model of npx's resolution-and-execution engine (src/index.js): one    *)
(* invocation of npx(argv), from the argument guards to process exit.      *)
(*                                                                         *)
(* Strings are TLA+ strings, a path is the sequence of its components      *)
(* (path.resolve / path.join append a component), the search path is the   *)
(* sequence of its directories (PATH_SEP separates them), an absent value  *)
(* (undefined / false) is NoPath, NoCmd, NoPkg or NoErr.                   *)
(***************************************************************************)
EXTENDS Integers, Sequences, FiniteSets, TLC

\* ------------------------------------------------------------- bounds

\* The longest directory listing the install leaves in its bin directory.
MaxBins == 2
\* The deepest chain of directory packages findNodeScript follows.
MaxDepth == 1

\* ---------------------------------------------------------- constants

\* src/index.js:167, the exit code of "command not found".
NotFoundExit == 127

\* The non-zero exit codes a child process (npm, the command) may report;
\* on an Error, exitCode 0 stands for "no exit code attached".
ExitCodes == {3}

NoPath == <<>>
NoCmd == "(no command)"
NoPkg == <<"(no package)">>
NoErr == [kind |-> "none"]

\* The command names a request may carry: "foo" is also the name of the
\* running entry script, "app.js" a name path.extname calls '.js'.
Commands == {"foo", "app.js"}

\* The names the package manager may link into the install bin directory.
BinNames == {"foo", "Foo.cmd", "bar"}

\* process.argv when npx starts: the node binary and the entry script.
NodeBinary == <<"ambient", "node">>
EntryScript == <<"ambient", "foo">>

\* Directories: the ambient search path, the project-local bin directory
\* (localBinPath), what npm's lifecycle environment puts first, and the
\* private install root under the cache, path.join(cache, '_npx', pid).
Ambient == <<"ambient">>
LocalBin == <<"project", "node_modules", ".bin">>
NpmBin == <<"npm", "node-gyp-bin">>
Undefined == <<"undefined">>
Prefix == <<"cache", "_npx", "pid">>

\* ------------------------------------------------------- pure helpers

Range(s) == {s[i] : i \in 1..Len(s)}

\* path.resolve(dir, name) / path.join(dir, name): the path one component
\* further down.
PathResolve(dir, name) == Append(dir, name)

\* The sequences over S of length at most n without a repeated element: the
\* listings fs.readdir can return for a directory holding names of S.
Listings(S, n) ==
  {l \in UNION {[1..k -> S] : k \in 0..n} :
     \A i, j \in 1..Len(l) : i # j => l[i] # l[j]}

\* String.prototype.toLowerCase over the names of the model, which is what
\* the 'i' flag of the RegExp of src/index.js:88 compares under.
Lower(name) ==
  CASE name = "Foo.cmd" -> "foo.cmd"
    [] OTHER -> name

\* name + '.cmd', the optional group (?:\.cmd)? of the same RegExp.
DotCmd(name) ==
  CASE name = "foo" -> "foo.cmd"
    [] name = "bar" -> "bar.cmd"
    [] name = "app.js" -> "app.js.cmd"
    [] OTHER -> "(other).cmd"

\* b.match(new RegExp(`^${command}(?:\\.cmd)?$`, 'i')).  No name of the
\* model differs from "app.js" in the one character its '.' stands for.
CmdMatches(b, command) ==
  \/ Lower(b) = Lower(command)
  \/ Lower(b) = DotCmd(Lower(command))

\* path.extname(p) === '.js' for the last component of a path.
ExtIsJs(p) == Len(p) > 0 /\ p[Len(p)] \in {"app.js", "cli.js"}

\* ------------------------------------------------------------- errors

\* An Error object: its errno code, the exitCode attached to it (0: none),
\* whether the child module marked it operational, and its message.
Err(code, exitCode, isOperational, text, about) ==
  [kind |-> "error", code |-> code, exitCode |-> exitCode,
   isOperational |-> isOperational,
   message |-> [text |-> text, about |-> about, code |-> 0]]

\* What `which` rejects with: not-found, or any other search error.
WhichErrors(command) ==
  {Err("ENOENT", 0, FALSE, "not found", <<command>>),
   Err("EACCES", 0, FALSE, "permission denied", <<command>>)}

\* What a filesystem primitive rejects with.
FsErrors(p) ==
  {Err("ENOENT", 0, FALSE, "no such file or directory", p),
   Err("EIO", 0, FALSE, "i/o error", p)}

\* What a child process (child.exec, child.spawn, child.runCommand) rejects
\* with: a non-zero exit code on an operational error, or a spawn-level
\* failure that carries no exit code.
ChildErrors(p) ==
  {Err("", c, TRUE, "child failed", p) : c \in ExitCodes}
    \cup {Err("EACCES", 0, FALSE, "spawn failed", p),
          Err("", 0, TRUE, "child killed", p)}

\* ------------------------------------------------------------ requests

\* The argv objects npx is called with.  install = FALSE is `install ===
\* false`; package is the list of specifiers or NoPkg; saf is
\* argv['shell-auto-fallback'].  No request gives opts.cache: with it
\* ensurePackages only skips getNpmCache, a step that can also succeed.
AllFlags ==
  [command : Commands \cup {NoCmd},
   package : {NoPkg, <<"pkg">>, <<"pkg", "dep">>},
   call : BOOLEAN,
   packageRequested : BOOLEAN,
   cmdHadVersion : BOOLEAN,
   ignoreExisting : BOOLEAN,
   isLocal : BOOLEAN,
   install : BOOLEAN,
   q : BOOLEAN,
   shell : BOOLEAN,
   cache : {FALSE},
   cmdOpts : {<<"--opt">>}]

\* The '.js' suffix of a command is read only for a local request
\* (src/index.js:254), so the suffixed name is drawn only with isLocal.
\* cmdHadVersion and ignoreExisting are read at line 160 only, after the
\* return of a local request at line 157-159, so a local request is drawn
\* without them; packageRequested, which line 65 reads too, stays free.
Flags ==
  {f \in AllFlags :
     /\ f.command = "app.js" => f.isLocal
     /\ f.isLocal => (~f.cmdHadVersion /\ ~f.ignoreExisting)}

\* With shell-auto-fallback set npx reads no other field of argv, so one
\* such request stands for all of them.
Requests ==
  {[saf |-> FALSE] @@ f : f \in Flags}
    \cup {[saf |-> TRUE] @@ f :
            f \in {g \in Flags : /\ g.command = "foo" /\ g.package = <<"pkg">>
                                 /\ ~g.call /\ ~g.packageRequested
                                 /\ ~g.cmdHadVersion /\ ~g.ignoreExisting
                                 /\ ~g.isLocal /\ g.install /\ ~g.q
                                 /\ ~g.shell}}

\* --------------------------------------------------------------- state

VARIABLES
  argv,         \* the request npx was called with
  win32,        \* process.platform === 'win32'
  pc,           \* where the promise chain of npx stands
  env,          \* process.env: PATH (a sequence of directories), whether it
                \* has a PATH key, whether it is npm's lifecycle environment
  lookup,       \* the promise of getExistingPath (args[0] of Promise.all)
  envcap,       \* the promise of getEnv (args[1] of Promise.all)
  existing,     \* `existing`, the resolved path handed down the chain
  fs,           \* the private install root on disk
  exitHandlers, \* the listeners of process.on('exit'), each the root it removes
  results,      \* what ensurePackages resolved with
  cls,          \* findNodeScript: the path being classified and the depth
  script,       \* what findNodeScript resolved with
  child,        \* the command child.runCommand was given
  procArgv,     \* process.argv: [0], [1] and the arguments after them
  exitCode,     \* process.exitCode (0: not set)
  output,       \* what npx wrote, in order
  rejected,     \* the promise npx returned was rejected
  caught,       \* the error the .catch of line 108 was called with
  childErr,     \* what the last child (npm install, the command) failed with
  file,         \* findNodeScript: the bytes of the file opened as fd
  buf,          \* findNodeScript: the buffer fs.read filled
  uncaught,     \* the error that escaped an 'exit' listener
  hist          \* the operations performed so far, in order

vars == <<argv, win32, pc, env, lookup, envcap, existing, fs, exitHandlers,
          results, cls, script, child, procArgv, exitCode, output, rejected,
          caught, childErr, file, buf, uncaught, hist>>

\* A promise: not created, in flight (with the PATH its operation was started
\* under), resolved with val, or rejected with err.
Idle == [st |-> "idle", val |-> NoPath, env |-> <<>>, err |-> NoErr]
InFlight(path) == [st |-> "inflight", val |-> NoPath, env |-> path, err |-> NoErr]
Resolved(v) == [st |-> "ok", val |-> v, env |-> <<>>, err |-> NoErr]
Rejected(e) == [st |-> "err", val |-> NoPath, env |-> <<>>, err |-> e]

Happened(e) == \E i \in 1..Len(hist) : hist[i] = e
Count(e) == Len(SelectSeq(hist, LAMBDA x : x = e))
\* e1 happened, and before every occurrence of e2.
Before(e1, e2) ==
  \A j \in 1..Len(hist) : hist[j] = e2 => \E i \in 1..(j - 1) : hist[i] = e1

\* The install bin directory: src/index.js:135-137.
Bins == IF win32 THEN Prefix ELSE Append(Prefix, "bin")

\* `${process.env.PATH}` as a list of directories.
PathString(e) == IF e.hasPATH THEN e.PATH ELSE <<Undefined>>

Init ==
  /\ argv \in Requests
  /\ win32 \in BOOLEAN
  /\ pc = "start"
  /\ env = [PATH |-> <<Ambient>>, hasPATH |-> TRUE, lifecycle |-> FALSE]
  /\ lookup = Idle
  /\ envcap = Idle
  /\ existing = NoPath
  /\ fs \in {[root |-> FALSE, bin |-> FALSE, entries |-> <<>>],
             [root |-> TRUE, bin |-> TRUE,
              entries |-> <<[name |-> "foo", fresh |-> FALSE]>>]}
  /\ exitHandlers = <<>>
  /\ results = [installed |-> FALSE, summary |-> FALSE]
  /\ cls = [target |-> NoPath, depth |-> 0]
  /\ script = NoPath
  /\ child = NoPath
  /\ procArgv = [node |-> NodeBinary, script |-> EntryScript,
                 args |-> <<"foo">>]
  /\ exitCode = 0
  /\ output = <<>>
  /\ rejected = FALSE
  /\ caught = NoErr
  /\ childErr = NoErr
  /\ file = <<>>
  /\ buf = <<>>
  /\ uncaught = NoErr
  /\ hist = <<>>

\* ------------------------------------------------- the top-level handler

\* src/index.js:108-111: the .catch of the chain writes the message unless
\* quiet, and sets process.exitCode to err.exitCode || 1.
Catch(e) ==
  /\ output' = IF argv.q THEN output
               ELSE Append(output, [stream |-> "stderr", kind |-> "error",
                                    message |-> e.message])
  /\ exitCode' = IF e.exitCode # 0 THEN e.exitCode ELSE 1
  /\ caught' = e
  /\ pc' = "done"

\* ------------------------------------------------------- getExistingPath

\* The flags that give `false` are tested before isLocal.
GetExistingPathBranch_FlagsFirst(opts) ==
  IF opts.cmdHadVersion \/ opts.packageRequested \/ opts.ignoreExisting
    THEN "false"
  ELSE IF opts.isLocal THEN "local"
  ELSE "which"

\* src/index.js:157-163: what getExistingPath does before any search:
\* "local" (resolve with the command), "false" (resolve with false), or
\* "which" (query the search path).
GetExistingPathBranch(opts) ==
  IF opts.isLocal THEN "local"
  ELSE IF opts.cmdHadVersion \/ opts.packageRequested \/ opts.ignoreExisting
    THEN "false"
  ELSE "which"

\* src/index.js:164-173: the .catch on which(command).  A not-found miss is
\* swallowed (the promise resolves with undefined) unless install === false,
\* where it is rethrown with exitCode 127; any other error is rethrown.
WhichCatch(e, opts) ==
  IF e.code = "ENOENT"
    THEN IF opts.install = FALSE
           THEN Rejected([e EXCEPT !.exitCode = NotFoundExit])
           ELSE Resolved(NoPath)
    ELSE Rejected(e)

\* src/index.js:156-175: the promise getExistingPath returns when called.
\* `path` is the PATH which(command) searches.
GetExistingPath(command, opts, path) ==
  CASE GetExistingPathBranch(opts) = "local" -> Resolved(<<command>>)
    [] GetExistingPathBranch(opts) = "false" -> Resolved(NoPath)
    [] OTHER -> InFlight(path)

\* ------------------------------------------------------------------ npx

\* src/index.js:17-28: argv['shell-auto-fallback'] is set; the fallback
\* script is printed, or there is none and the exit code is 1.
ShellAutoFallback ==
  /\ pc = "start"
  /\ argv.saf
  /\ \/ /\ output' = Append(output, [stream |-> "stdout", kind |-> "fallback",
                                     message |-> [text |-> "fallback",
                                                  about |-> <<>>, code |-> 0]])
        /\ UNCHANGED exitCode
     \/ /\ exitCode' = 1
        /\ UNCHANGED output
  /\ pc' = "done"
  /\ UNCHANGED <<uncaught, file, buf,
                 argv, win32, env, lookup, envcap, existing, fs, exitHandlers,
                 results, cls, script, child, procArgv, rejected, hist,
                 caught, childErr>>

\* src/index.js:30: no command to run.
NoCommand(a) == ~a.call /\ (a.command = NoCmd \/ a.package = NoPkg)

\* src/index.js:30-35: the request is refused.
MustSupplyCommand ==
  /\ pc = "start"
  /\ ~argv.saf
  /\ NoCommand(argv)
  /\ output' = IF argv.q THEN output
               ELSE Append(output, [stream |-> "stderr", kind |-> "usage",
                                    message |-> [text |-> "You must supply a command",
                                                 about |-> <<>>, code |-> 0]])
  /\ exitCode' = 1
  /\ pc' = "done"
  /\ UNCHANGED <<uncaught, file, buf,
                 argv, win32, env, lookup, envcap, existing, fs, exitHandlers,
                 results, cls, script, child, procArgv, rejected, hist,
                 caught, childErr>>

\* src/index.js:41: localBinPath(process.cwd()) is called.
Start ==
  /\ pc = "start"
  /\ ~argv.saf
  /\ ~NoCommand(argv)
  /\ pc' = "localBin"
  /\ hist' = Append(hist, "localBinPath")
  /\ UNCHANGED <<uncaught, file, buf,
                 argv, win32, env, lookup, envcap, existing, fs, exitHandlers,
                 results, cls, script, child, procArgv, exitCode, output,
                 rejected,
                 caught, childErr>>

\* src/index.js:41-56: localBinPath resolved; the local bin directory goes
\* first on PATH, then getExistingPath and getEnv are both started.
LocalBinResolved ==
  /\ pc = "localBin"
  /\ LET path == <<LocalBin>> \o PathString(env)
     IN /\ env' = [env EXCEPT !.PATH = path, !.hasPATH = TRUE]
        /\ lookup' = IF argv.command # NoCmd
                       THEN GetExistingPath(argv.command, argv, path)
                       ELSE Resolved(NoPath)
        /\ envcap' = IF argv.call THEN InFlight(path) ELSE Resolved(NoPath)
        /\ hist' = hist
                     \o (IF argv.command # NoCmd
                           THEN <<"getExistingPath">> ELSE <<>>)
                     \o (IF argv.command # NoCmd
                            /\ GetExistingPathBranch(argv) = "which"
                           THEN <<"which">> ELSE <<>>)
                     \o (IF argv.call THEN <<"getEnv">> ELSE <<>>)
  /\ pc' = "await"
  /\ UNCHANGED <<uncaught, file, buf,
                 argv, win32, existing, fs, exitHandlers, results, cls,
                 script, child, procArgv, exitCode, output, rejected,
                 caught, childErr>>

\* src/index.js:41, 112-117: localBinPath rejected.  The .catch of line 108
\* hangs on the inner chain, so the promise npx returned is rejected.
LocalBinRejected ==
  /\ pc = "localBin"
  /\ rejected' = TRUE
  /\ pc' = "done"
  /\ UNCHANGED <<uncaught, file, buf,
                 argv, win32, env, lookup, envcap, existing, fs, exitHandlers,
                 results, cls, script, child, procArgv, exitCode, output, hist,
                 caught, childErr>>

\* src/index.js:164: which(command) settles: the command is found in a
\* directory of the PATH it searched, or the search fails.
WhichSettles ==
  /\ lookup.st = "inflight"
  /\ \/ \E d \in Range(lookup.env) :
          lookup' = Resolved(PathResolve(d, argv.command))
     \/ \E e \in WhichErrors(argv.command) : lookup' = WhichCatch(e, argv)
  /\ UNCHANGED <<uncaught, file, buf,
                 argv, win32, pc, env, envcap, existing, fs, exitHandlers,
                 results, cls, script, child, procArgv, exitCode, output,
                 rejected, hist,
                 caught, childErr>>

\* What `npm run env --parseable`, parsed by dotenv, gives for a child
\* started under `path`: npm's own directories ahead of it.
LifecycleEnvs(path) ==
  {[PATH |-> <<NpmBin>> \o path, hasPATH |-> TRUE, lifecycle |-> TRUE]}

\* src/index.js:123-127: getEnv settles.  The environment it resolves with
\* is kept in the promise as the index of its PATH variant.
GetEnvSettles ==
  /\ envcap.st = "inflight"
  /\ \/ \E e \in LifecycleEnvs(envcap.env) :
          envcap' = [Resolved(<<"env">>) EXCEPT !.env = e.PATH]
     \/ \E e \in ChildErrors(<<"npm", "run", "env">>) : envcap' = Rejected(e)
  /\ UNCHANGED <<uncaught, file, buf,
                 argv, win32, pc, env, lookup, existing, fs, exitHandlers,
                 results, cls, script, child, procArgv, exitCode, output,
                 rejected, hist,
                 caught, childErr>>

\* src/index.js:60-64: `if (newEnv) process.env = newEnv`.
ReplaceEnv(e, cap) ==
  IF cap.val # NoPath
    THEN [PATH |-> cap.env, hasPATH |-> cap.env # <<>>, lifecycle |-> TRUE]
    ELSE e

\* The install decision without its test of `existing`.
NeedsInstall_IgnoresExisting(ex, a) == ~a.call \/ a.packageRequested

\* The install decision without its test of argv.call.
NeedsInstall_IgnoresCall(ex, a) == ex = NoPath \/ a.packageRequested

\* src/index.js:65: the install decision.
NeedsInstall(ex, a) == (ex = NoPath /\ ~a.call) \/ a.packageRequested

\* The chain goes on as soon as one of the two promises has resolved.
AllResolved_EitherOne(l, c) == l.st = "ok" \/ c.st = "ok"

\* src/index.js:46-57: Promise.all resolves when both promises have.
AllResolved(l, c) == l.st = "ok" /\ c.st = "ok"

\* src/index.js:57-76, 102-105: both promises resolved.  The environment is
\* replaced, then either ensurePackages is called (which at once asks for
\* the cache directory) or the chain goes on with `existing`.
BothResolved ==
  /\ pc = "await"
  /\ AllResolved(lookup, envcap)
  /\ existing' = lookup.val
  /\ env' = ReplaceEnv(env, envcap)
  /\ IF NeedsInstall(lookup.val, argv)
       THEN /\ pc' = "cache"
            /\ hist' = hist
                 \o (IF envcap.val # NoPath THEN <<"replaceEnv">> ELSE <<>>)
                 \o <<"ensurePackages">>
       ELSE /\ pc' = "exec"
            /\ hist' = hist
                 \o (IF envcap.val # NoPath THEN <<"replaceEnv">> ELSE <<>>)
  /\ UNCHANGED <<uncaught, file, buf,
                 argv, win32, lookup, envcap, fs, exitHandlers, results, cls,
                 script, child, procArgv, exitCode, output, rejected,
                 caught, childErr>>

\* src/index.js:46-57, 108-111: Promise.all rejects as soon as one of the
\* two promises does, and the chain falls through to the .catch.
EitherRejected ==
  /\ pc = "await"
  /\ \/ /\ lookup.st = "err"
        /\ Catch(lookup.err)
     \/ /\ envcap.st = "err"
        /\ Catch(envcap.err)
  /\ UNCHANGED <<uncaught, file, buf,
                 argv, win32, env, lookup, envcap, existing, fs, exitHandlers,
                 results, cls, script, child, procArgv, rejected, hist,
                 childErr>>

\* ------------------------------------------------------- ensurePackages

\* The stale contents of the install bin directory are left in place.
RimrafBins_Skipped(f) == f

\* rimraf(bins): the install bin directory is gone; on win32 it is the
\* private root itself.  src/index.js:135-140.
RimrafBins(f) ==
  [root |-> IF win32 THEN FALSE ELSE f.root, bin |-> FALSE, entries |-> <<>>]

\* rimraf.sync(prefix): the private root is gone.  src/index.js:139.
RimrafPrefix(f) == [root |-> FALSE, bin |-> FALSE, entries |-> <<>>]

\* No exit listener is registered.
RegisterExit_Forgotten(handlers) == handlers

\* src/index.js:139: process.on('exit', () => rimraf.sync(prefix)).
RegisterExit(handlers) == Append(handlers, Prefix)

\* src/index.js:132-140: the cache directory is known (opts.cache, or
\* getNpmCache resolved).  The exit listener is registered, then rimraf(bins)
\* is started.
CacheResolved ==
  /\ pc = "cache"
  /\ exitHandlers' = RegisterExit(exitHandlers)
  /\ hist' = hist \o <<"registerExit", "rimrafStart">>
  /\ pc' = "rimraf"
  /\ UNCHANGED <<uncaught, file, buf,
                 argv, win32, env, lookup, envcap, existing, fs, results, cls,
                 script, child, procArgv, exitCode, output, rejected,
                 caught, childErr>>

\* src/index.js:132, 178-186: getNpmCache rejected (which(opts.npm) or the
\* `npm config get cache` child failed); there is no opts.cache.
CacheRejected ==
  /\ pc = "cache"
  /\ ~argv.cache
  /\ \E e \in WhichErrors("npm") \cup ChildErrors(<<"npm", "config">>) : Catch(e)
  /\ UNCHANGED <<uncaught, file, buf,
                 argv, win32, env, lookup, envcap, existing, fs, exitHandlers,
                 results, cls, script, child, procArgv, rejected, hist,
                 childErr>>

\* src/index.js:140-141, 200-202: rimraf(bins) is done; installPackages
\* builds its arguments and looks npm up.
RimrafResolved ==
  /\ pc = "rimraf"
  /\ fs' = RimrafBins(fs)
  /\ hist' = hist \o <<"rimrafBins", "installPackages">>
  /\ pc' = "whichNpm"
  /\ UNCHANGED <<uncaught, file, buf,
                 argv, win32, env, lookup, envcap, existing, exitHandlers,
                 results, cls, script, child, procArgv, exitCode, output,
                 rejected,
                 caught, childErr>>

\* src/index.js:140: rimraf(bins) failed (a missing directory is no failure).
RimrafRejected ==
  /\ pc = "rimraf"
  /\ Catch(Err("EIO", 0, FALSE, "i/o error", Bins))
  /\ UNCHANGED <<uncaught, file, buf,
                 argv, win32, env, lookup, envcap, existing, fs, exitHandlers,
                 results, cls, script, child, procArgv, rejected, hist,
                 childErr>>

\* src/index.js:202-204: npm is found and `npm install` is spawned.
WhichNpmResolved ==
  /\ pc = "whichNpm"
  /\ hist' = Append(hist, "installStart")
  /\ pc' = "install"
  /\ UNCHANGED <<uncaught, file, buf,
                 argv, win32, env, lookup, envcap, existing, fs, exitHandlers,
                 results, cls, script, child, procArgv, exitCode, output,
                 rejected,
                 caught, childErr>>

\* src/index.js:202: which(opts.npm) rejected.
WhichNpmRejected ==
  /\ pc = "whichNpm"
  /\ \E e \in WhichErrors("npm") : Catch(e)
  /\ UNCHANGED <<uncaught, file, buf,
                 argv, win32, env, lookup, envcap, existing, fs, exitHandlers,
                 results, cls, script, child, procArgv, rejected, hist,
                 childErr>>

\* What the install leaves in the bin directory: the names it links, in the
\* order readdir lists them, after whatever was there; or no bin directory.
Installed(f) ==
  {[root |-> TRUE, bin |-> TRUE,
    entries |-> f.entries \o [i \in 1..Len(l) |-> [name |-> l[i], fresh |-> TRUE]]] :
     l \in {m \in Listings(BinNames, MaxBins) :
              \A i \in 1..Len(m), j \in 1..Len(f.entries) :
                m[i] # f.entries[j].name}}
    \cup {[root |-> TRUE, bin |-> f.bin, entries |-> f.entries]}

\* The install error is rethrown with the message it came with.
InstallFailure_SameMessage(e, specs) == e

\* src/index.js:209-214: the rejection handler of the install child: an
\* error with an exit code gets the message naming the specifiers and it.
InstallFailure(e, specs) ==
  IF e.exitCode # 0
    THEN [e EXCEPT !.message = [text |-> "Install failed", about |-> specs,
                                code |-> e.exitCode]]
    ELSE e

\* src/index.js:203-208: `npm install` exited 0.  Its stdout is JSON with
\* added and updated, or empty or not JSON (no summary).
InstallResolved ==
  /\ pc = "install"
  /\ \E f \in Installed(fs) : fs' = f
  /\ \E summary \in BOOLEAN : results' = [installed |-> FALSE, summary |-> summary]
  /\ hist' = Append(hist, "installDone")
  /\ pc' = "installed"
  /\ UNCHANGED <<uncaught, file, buf,
                 argv, win32, env, lookup, envcap, existing, exitHandlers, cls,
                 script, child, procArgv, exitCode, output, rejected,
                 caught, childErr>>

\* src/index.js:209-214, 108-111: `npm install` failed, leaving the private
\* root behind or not; nothing of the chain but the .catch runs.
InstallRejected ==
  /\ pc = "install"
  /\ \E e \in ChildErrors(<<"npm", "install">>) :
       /\ childErr' = e
       /\ Catch(InstallFailure(e, argv.package))
  /\ \E made \in BOOLEAN : fs' = [fs EXCEPT !.root = @ \/ made]
  /\ hist' = Append(hist, "installFailed")
  /\ UNCHANGED <<uncaught, file, buf,
                 argv, win32, env, lookup, envcap, existing, exitHandlers,
                 results, cls, script, child, procArgv, rejected>>

\* The install bin directory put last on PATH instead of first.
PrefixPath_Appends(e) ==
  [e EXCEPT !.PATH = PathString(e) \o <<Bins>>, !.hasPATH = TRUE]

\* The install bin directory is put on PATH twice.
PrefixPath_Twice(e) ==
  [e EXCEPT !.PATH = <<Bins, Bins>> \o PathString(e), !.hasPATH = TRUE]

\* src/index.js:146: the install bin directory goes first on PATH.
PrefixPath(e) == [e EXCEPT !.PATH = <<Bins>> \o PathString(e), !.hasPATH = TRUE]

\* src/index.js:142-151: the .then of ensurePackages after the install.
EnsureResolved ==
  /\ pc = "installed"
  /\ env' = PrefixPath(env)
  /\ results' = [results EXCEPT !.installed = TRUE]
  /\ hist' = hist \o <<"prefixPath", "ensureDone">>
  /\ pc' = "results"
  /\ UNCHANGED <<uncaught, file, buf,
                 argv, win32, lookup, envcap, existing, fs, exitHandlers, cls,
                 script, child, procArgv, exitCode, output, rejected,
                 caught, childErr>>

\* ------------------------------------------------------- CommandLocator

NoName == "(undefined)"

\* bins.find(b => b.match(cmd)): the first entry that matches, or undefined.
Find(bins, command) ==
  IF \E i \in 1..Len(bins) : CmdMatches(bins[i], command)
    THEN bins[CHOOSE i \in 1..Len(bins) :
                /\ CmdMatches(bins[i], command)
                /\ \A j \in 1..(i - 1) : ~CmdMatches(bins[j], command)]
    ELSE NoName

\* bins[key] for a string key: the element at that index when the key is
\* the decimal form of an index, else undefined (no name of the model is a
\* member of Array.prototype).
ArrayGet(bins, key) ==
  LET index == CASE key = "0" -> 1
                 [] key = "1" -> 2
                 [] key = "2" -> 3
                 [] OTHER -> 0
  IN IF index \in 1..Len(bins) THEN bins[index] ELSE NoName

\* src/index.js:88-90: `bins[matching] || bins[0]`, the entry the locator
\* picks out of the listing.
LocateName(bins, command) ==
  LET matching == Find(bins, command)
      byKey == ArrayGet(bins, matching)
  IN IF byKey # NoName THEN byKey
     ELSE IF Len(bins) > 0 THEN bins[1]
     ELSE NoName

\* src/index.js:81-86: when the locator runs.  (package is a list here: a
\* request without one gets past line 30 only with call set, and installs
\* only with packageRequested set.)
LocatorRuns(ex, a) ==
  /\ a.command # NoCmd
  /\ ex = NoPath
  /\ ~a.packageRequested
  /\ a.package # NoPkg
  /\ Len(a.package) = 1

\* src/index.js:76-100: the .then on ensurePackages: the summary line, then
\* either fs.readdir(results.bin) or `existing` as it is.
EnsureThen ==
  /\ pc = "results"
  /\ output' = IF results.summary /\ ~argv.q
                 THEN Append(output, [stream |-> "stderr", kind |-> "installed",
                                      message |-> [text |-> "npx: installed",
                                                   about |-> <<>>, code |-> 0]])
                 ELSE output
  /\ IF LocatorRuns(existing, argv)
       THEN /\ pc' = "readdir"
            /\ hist' = Append(hist, "readdir")
       ELSE /\ pc' = "exec"
            /\ hist' = hist
  /\ UNCHANGED <<uncaught, file, buf,
                 argv, win32, env, lookup, envcap, existing, fs, exitHandlers,
                 results, cls, script, child, procArgv, exitCode, rejected,
                 caught, childErr>>

\* The names fs.readdir lists for the install bin directory.
Listing(f) == [i \in 1..Len(f.entries) |-> f.entries[i].name]

\* src/index.js:87-90: the listing is read and an entry is picked.
\* path.resolve throws a TypeError when there is no entry to pick.
ReaddirResolved ==
  /\ pc = "readdir"
  /\ fs.bin
  /\ LET name == LocateName(Listing(fs), argv.command)
     IN IF name # NoName
          THEN /\ existing' = PathResolve(Bins, name)
               /\ hist' = Append(hist, "located")
               /\ pc' = "exec"
               /\ UNCHANGED <<exitCode, output, caught>>
          ELSE /\ Catch(Err("", 0, FALSE, "path must be a string", Bins))
               /\ UNCHANGED <<existing, hist>>
  /\ UNCHANGED <<uncaught, file, buf,
                 argv, win32, env, lookup, envcap, fs, exitHandlers, results,
                 cls, script, child, procArgv, rejected,
                 childErr>>

\* src/index.js:91-97: fs.readdir failed: a missing directory becomes
\* "command not found" (an Error without exitCode), anything else is
\* rethrown.
ReaddirRejected ==
  /\ pc = "readdir"
  /\ \/ /\ ~fs.bin
        /\ Catch(Err("", 0, FALSE, "command not found", <<argv.command>>))
     \/ Catch(Err("EIO", 0, FALSE, "i/o error", Bins))
  /\ UNCHANGED <<uncaught, file, buf,
                 argv, win32, env, lookup, envcap, existing, fs, exitHandlers,
                 results, cls, script, child, procArgv, rejected, hist,
                 childErr>>

\* ------------------------------------------------------- findNodeScript

\* src/index.js:272: the line a node script starts with, byte by byte.
ShebangLine ==
  <<"#", "!", "/", "u", "s", "r", "/", "b", "i", "n", "/", "e", "n", "v",
    " ", "n", "o", "d", "e", "\n">>

\* The files the classifier may open: a node script of exactly the line, a
\* node script with a body, the line with a capital, with a tab for the
\* space, without its newline, another interpreter, and an empty file.
Contents ==
  {ShebangLine,
   ShebangLine \o <<"m", "a", "i", "n", "(", ")">>,
   [ShebangLine EXCEPT ![16] = "N"],
   [ShebangLine EXCEPT ![15] = "\t"],
   SubSeq(ShebangLine, 1, Len(ShebangLine) - 1),
   <<"#", "!", "/", "b", "i", "n", "/", "s", "h", "\n">>,
   <<>>}

\* The whole file is read instead of its first bytes.
ReadHead_WholeFile(content) == content

\* src/index.js:273-276: Buffer.alloc(line.length) is zero-filled and
\* fs.read copies at most line.length bytes into it, from position 0.
ReadHead(content) ==
  [i \in 1..Len(ShebangLine) |->
     IF i <= Len(content) THEN content[i] ELSE "\\0"]

\* src/index.js:282: `buf.toString('utf8') === line && existing`.
Sniff(b, p) == IF b = ShebangLine THEN p ELSE NoPath

\* src/index.js:260: pkg.bin || pkg.main || 'index.js', resolved against
\* the directory; '.' names the directory itself.
EntryPoints == {"cli.js", "lib", "."}
ResolveEntry(dir, entry) == IF entry = "." THEN dir ELSE PathResolve(dir, entry)

\* src/index.js:261-267 and 220: findNodeScript settles with `s` for the
\* path cls.target.  Inside a directory package a falsy result is thrown as
\* "command not found", naming the path that was classified.
Classified(s) ==
  IF s = NoPath /\ cls.depth > 0
    THEN /\ Catch(Err("", 0, FALSE, "command not found", cls.target))
         /\ UNCHANGED script
    ELSE /\ script' = s
         /\ pc' = "strategy"
         /\ UNCHANGED <<exitCode, output, caught>>

\* src/index.js:106-107, 219-220, 250-253: execCommand is called and calls
\* findNodeScript, which resolves with false for no path and else stats it.
ExecCommand ==
  /\ pc = "exec"
  /\ hist' = Append(hist, "execCommand")
  /\ IF existing = NoPath
       THEN /\ pc' = "strategy"
            /\ UNCHANGED cls
       ELSE /\ pc' = "stat"
            /\ cls' = [target |-> existing, depth |-> 0]
  /\ UNCHANGED <<uncaught, file, buf,
                 argv, win32, env, lookup, envcap, existing, fs, exitHandlers,
                 results, script, child, procArgv, exitCode, output, rejected,
                 caught, childErr>>

\* src/index.js:253: fs.stat failed.
StatRejected ==
  /\ pc = "stat"
  /\ \E e \in FsErrors(cls.target) : Catch(e)
  /\ UNCHANGED <<uncaught, file, buf,
                 argv, win32, env, lookup, envcap, existing, fs, exitHandlers,
                 results, cls, script, child, procArgv, rejected, hist,
                 childErr>>

\* src/index.js:254-255: a local '.js' path is the script.
StatLocalJs ==
  /\ pc = "stat"
  /\ argv.isLocal /\ ExtIsJs(cls.target)
  /\ Classified(cls.target)
  /\ UNCHANGED <<uncaught, file, buf,
                 argv, win32, env, lookup, envcap, existing, fs, exitHandlers,
                 results, cls, child, procArgv, rejected, hist,
                 childErr>>

\* src/index.js:256-261: a local directory with a readable manifest:
\* findNodeScript is called on its entry point.
StatLocalDir ==
  /\ pc = "stat"
  /\ argv.isLocal /\ ~ExtIsJs(cls.target)
  /\ cls.depth < MaxDepth
  /\ \E entry \in EntryPoints :
       cls' = [target |-> ResolveEntry(cls.target, entry),
               depth |-> cls.depth + 1]
  /\ UNCHANGED <<uncaught, file, buf,
                 argv, win32, pc, env, lookup, envcap, existing, fs,
                 exitHandlers, results, script, child, procArgv, exitCode,
                 output, rejected, hist,
                 caught, childErr>>

\* src/index.js:258-260, 268-270: a local directory whose manifest cannot be
\* required, or whose bin is no string: the catch names the directory.
StatLocalDirBadManifest ==
  /\ pc = "stat"
  /\ argv.isLocal /\ ~ExtIsJs(cls.target)
  /\ Catch(Err("", 0, FALSE, "command not found", cls.target))
  /\ UNCHANGED <<uncaught, file, buf,
                 argv, win32, env, lookup, envcap, existing, fs, exitHandlers,
                 results, cls, script, child, procArgv, rejected, hist,
                 childErr>>

\* src/index.js:271-275: any other path, off win32: the file is opened.
StatSniff ==
  /\ pc = "stat"
  /\ ~(argv.isLocal /\ ExtIsJs(cls.target))
  /\ ~win32
  /\ pc' = "sniff"
  /\ UNCHANGED <<uncaught, file, buf,
                 argv, win32, env, lookup, envcap, existing, fs, exitHandlers,
                 results, cls, script, child, procArgv, exitCode, output,
                 rejected, hist,
                 caught, childErr>>

\* src/index.js:271, 284-285: on win32 the .then returns undefined.
StatWin32 ==
  /\ pc = "stat"
  /\ ~(argv.isLocal /\ ExtIsJs(cls.target))
  /\ win32
  /\ Classified(NoPath)
  /\ UNCHANGED <<uncaught, file, buf,
                 argv, win32, env, lookup, envcap, existing, fs, exitHandlers,
                 results, cls, child, procArgv, rejected, hist,
                 childErr>>

\* src/index.js:275-277: the file is opened, its first bytes are read into
\* the buffer and it is closed.
SniffResolved ==
  /\ pc = "sniff"
  /\ \E content \in Contents :
       /\ file' = content
       /\ buf' = ReadHead(content)
  /\ pc' = "sniffed"
  /\ UNCHANGED <<argv, win32, env, lookup, envcap, existing, fs, exitHandlers,
                 results, cls, script, child, procArgv, exitCode, output,
                 rejected, hist, caught, childErr, uncaught>>

\* src/index.js:281-283: the buffer is compared with the line; it is not
\* used again.
SniffCompare ==
  /\ pc = "sniffed"
  /\ Classified(Sniff(buf, cls.target))
  /\ file' = <<>>
  /\ buf' = <<>>
  /\ UNCHANGED <<argv, win32, env, lookup, envcap, existing, fs, exitHandlers,
                 results, cls, child, procArgv, rejected, hist,
                 childErr, uncaught>>

\* src/index.js:275-280: open, read or close failed.
SniffRejected ==
  /\ pc = "sniff"
  /\ \E e \in FsErrors(cls.target) : Catch(e)
  /\ UNCHANGED <<uncaught, file, buf,
                 argv, win32, env, lookup, envcap, existing, fs, exitHandlers,
                 results, cls, script, child, procArgv, rejected, hist,
                 childErr>>

\* ---------------------------------------------------------- execCommand

\* Module.runMain exists in every node this runs on.
ModuleRunMain == TRUE

\* The takeover without its test against the running entry script.
TakeoverAllowed_EvenOfItself(s, a, pargv) ==
  /\ s # NoPath
  /\ ModuleRunMain
  /\ ~a.shell

\* src/index.js:222: when the script takes the process over.
TakeoverAllowed(s, a, pargv) ==
  /\ s # NoPath
  /\ ModuleRunMain
  /\ ~a.shell
  /\ s # pargv.script

\* src/index.js:228-231: process.argv for the script that takes over.
TakeoverArgv(s, a, pargv) ==
  [node |-> pargv.node, script |-> s, args |-> a.cmdOpts]

\* child.runCommand(existing, argv) of ./child: the command the child is
\* started on is the resolved one, or the requested one when none is.
RunCommandTarget(s, a) ==
  IF s # NoPath THEN s
  ELSE IF a.command # NoCmd THEN <<a.command>>
  ELSE <<"(call)">>

\* src/index.js:221-232: the script takes the process over and runs to its
\* end, or throws while it is loaded.
Takeover ==
  /\ pc = "strategy"
  /\ TakeoverAllowed(script, argv, procArgv)
  /\ procArgv' = TakeoverArgv(script, argv, procArgv)
  /\ hist' = Append(hist, "takeover")
  /\ \/ /\ pc' = "done"
        /\ UNCHANGED <<exitCode, output, caught>>
     \/ Catch(Err("", 0, FALSE, "script threw", script))
  /\ UNCHANGED <<uncaught, file, buf,
                 argv, win32, env, lookup, envcap, existing, fs, exitHandlers,
                 results, cls, script, child, rejected,
                 childErr>>

\* src/index.js:233-234: the command is spawned.
Spawn ==
  /\ pc = "strategy"
  /\ ~TakeoverAllowed(script, argv, procArgv)
  /\ child' = RunCommandTarget(script, argv)
  /\ hist' = Append(hist, "spawn")
  /\ pc' = "child"
  /\ UNCHANGED <<uncaught, file, buf,
                 argv, win32, env, lookup, envcap, existing, fs, exitHandlers,
                 results, cls, script, procArgv, exitCode, output, rejected,
                 caught, childErr>>

\* The child exited with code 0.
ChildResolved ==
  /\ pc = "child"
  /\ pc' = "done"
  /\ hist' = Append(hist, "childOk")
  /\ UNCHANGED <<uncaught, file, buf,
                 argv, win32, env, lookup, envcap, existing, fs, exitHandlers,
                 results, cls, script, child, procArgv, exitCode, output,
                 rejected,
                 caught, childErr>>

\* Any operational error is taken for a result of the command.
IsChildResult_AnyOperational(e) == e.isOperational

\* src/index.js:235: an ordinary failure of the command itself.
IsChildResult(e) == e.isOperational /\ e.exitCode # 0

\* src/index.js:234-243: the .catch on child.runCommand: an operational
\* error with an exit code only sets process.exitCode, any other error is
\* rethrown (and reaches the .catch of line 108).
ChildRejected ==
  /\ pc = "child"
  /\ \E e \in ChildErrors(child) :
       /\ childErr' = e
       /\ IF IsChildResult(e)
            THEN /\ exitCode' = e.exitCode
                 /\ pc' = "done"
                 /\ UNCHANGED <<output, caught>>
            ELSE Catch(e)
       /\ hist' = Append(hist, IF e.isOperational THEN "childFailed"
                               ELSE "spawnFailed")
  /\ UNCHANGED <<uncaught, file, buf,
                 argv, win32, env, lookup, envcap, existing, fs, exitHandlers,
                 results, cls, script, child, procArgv, rejected>>

\* ---------------------------------------------------------- process exit

\* The 'exit' listeners run, each removing its root: src/index.js:139.
RunExitHandlers(handlers, f) == IF Len(handlers) > 0 THEN RimrafPrefix(f) ELSE f

\* Nothing is pending any more: the process exits and emits 'exit'.
ProcessExit ==
  /\ pc = "done"
  /\ lookup.st # "inflight"
  /\ envcap.st # "inflight"
  /\ fs' = RunExitHandlers(exitHandlers, fs)
  /\ hist' = hist \o [i \in 1..Len(exitHandlers) |-> "exitListener"]
                  \o (IF fs.root /\ ~RunExitHandlers(exitHandlers, fs).root
                        THEN <<"rootRemoved">> ELSE <<>>)
  /\ pc' = "exited"
  /\ UNCHANGED <<uncaught, file, buf,
                 argv, win32, env, lookup, envcap, existing, exitHandlers,
                 results, cls, script, child, procArgv, exitCode, output,
                 rejected, caught, childErr>>

Next ==
  \/ ShellAutoFallback \/ MustSupplyCommand \/ Start
  \/ LocalBinResolved \/ LocalBinRejected
  \/ WhichSettles \/ GetEnvSettles \/ BothResolved \/ EitherRejected
  \/ CacheResolved \/ CacheRejected \/ RimrafResolved \/ RimrafRejected
  \/ WhichNpmResolved \/ WhichNpmRejected
  \/ InstallResolved \/ InstallRejected \/ EnsureResolved \/ EnsureThen
  \/ ReaddirResolved \/ ReaddirRejected
  \/ ExecCommand \/ StatRejected \/ StatLocalJs \/ StatLocalDir
  \/ StatLocalDirBadManifest \/ StatSniff \/ StatWin32
  \/ SniffResolved \/ SniffCompare \/ SniffRejected
  \/ Takeover \/ Spawn \/ ChildResolved \/ ChildRejected
  \/ ProcessExit

Spec == Init /\ [][Next]_vars

\* ------------------------------------------- a removal that fails at exit

\* What rimraf.sync(prefix) throws when the root cannot be removed; a root
\* that is already gone is no error to it.
RimrafSyncErrors(p) ==
  {Err("EPERM", 0, FALSE, "operation not permitted", p),
   Err("EBUSY", 0, FALSE, "resource busy or locked", p)}

\* src/index.js:139: the listener is `() => rimraf.sync(prefix)`, with
\* nothing around the call: when the removal throws, the error leaves the
\* listener and the root stays.
ExitListenerThrows ==
  /\ pc = "done"
  /\ lookup.st # "inflight"
  /\ envcap.st # "inflight"
  /\ Len(exitHandlers) > 0
  /\ fs.root
  /\ \E e \in RimrafSyncErrors(exitHandlers[1]) : uncaught' = e
  /\ hist' = Append(hist, "exitListener")
  /\ pc' = "exited"
  /\ UNCHANGED <<argv, win32, env, lookup, envcap, existing, fs, exitHandlers,
                 results, cls, script, child, procArgv, exitCode, output,
                 rejected, caught, childErr, file, buf>>

NextWithRemovalFaults == Next \/ ExitListenerThrows

SpecWithRemovalFaults == Init /\ [][NextWithRemovalFaults]_vars

\* =============================================================== claims

\* C1: when the existing-path lookup yields a path (the command is found on
\* the search path, or the request is marked local) and packageRequested is
\* not set, ensurePackages is never invoked and nothing of an install
\* happens: the chain goes from the lookup to execCommand.
C1_ExistingSkipsInstall ==
  (lookup.st = "ok" /\ lookup.val # NoPath /\ ~argv.packageRequested)
    => /\ ~Happened("ensurePackages")
       /\ ~Happened("registerExit")
       /\ ~Happened("installStart")
       /\ pc \notin {"cache", "rimraf", "whichNpm", "install", "installed",
                     "results", "readdir"}
       /\ exitHandlers = <<>>

\* C1 witness: a command found on the search path was run to its end, the
\* install skipped.
C1_Witness ==
  /\ pc = "exited"
  /\ Happened("which")
  /\ lookup.st = "ok" /\ lookup.val # NoPath
  /\ ~argv.packageRequested
  /\ Happened("execCommand")
  /\ Happened("childOk")

\* C2 as stated: whenever execCommand is called and the lookup yielded no
\* path or packageRequested is set, ensurePackages was called and completed
\* before; the install is skipped only when the lookup yielded a path and
\* packageRequested is not set.
C2_Original ==
  Happened("execCommand")
    => /\ (lookup.val = NoPath \/ argv.packageRequested)
            => (Happened("ensureDone") /\ Before("ensureDone", "execCommand"))
       /\ ~Happened("ensurePackages")
            => (lookup.val # NoPath /\ ~argv.packageRequested)

\* C2 amended: whenever execCommand is called, ensurePackages was called and
\* completed before it exactly when packageRequested is set or the lookup
\* yielded no path in a request without call; with call set and
\* packageRequested not set the install is skipped even though no path was
\* found.
C2_InstallBeforeExec ==
  Happened("execCommand")
    => IF (lookup.val = NoPath /\ ~argv.call) \/ argv.packageRequested
         THEN /\ Happened("ensureDone")
              /\ Before("ensureDone", "execCommand")
              /\ Before("installDone", "execCommand")
              /\ Count("ensurePackages") = 1
         ELSE /\ ~Happened("ensurePackages")
              /\ ~Happened("installStart")

\* C2 witness: a forced install completed before execCommand was called,
\* and so did an install for a command that was not found.
C2_Witness ==
  /\ Happened("execCommand")
  /\ Happened("ensureDone")
  /\ lookup.val = NoPath
  /\ ~argv.packageRequested
  /\ ~argv.call
  /\ Happened("which")

\* C3: once ensurePackages has completed after a successful install, PATH
\* has the install bin directory as its first entry, ahead of the
\* project-local bin directory and of every other entry, in every state
\* from there to the end of the command, whether or not the lifecycle
\* environment replaced process.env before.
C3_InstalledBinFirst ==
  Happened("ensureDone")
    => /\ env.hasPATH
       /\ Len(env.PATH) >= 2
       /\ env.PATH[1] = Bins
       /\ \A i \in 2..Len(env.PATH) :
            env.PATH[i] \in {LocalBin, Ambient, NpmBin, Undefined}

\* C3 witness: the lifecycle environment replaced process.env, the install
\* succeeded, and the command is running with the project-local directory
\* still on PATH.
C3_Witness ==
  /\ pc = "child"
  /\ Happened("ensureDone")
  /\ Happened("replaceEnv")
  /\ env.lifecycle
  /\ \E i \in 2..Len(env.PATH) : env.PATH[i] = LocalBin

C5_LocatorPicksMatch ==
  (Happened("located") /\ pc # "exited")
    => LET bins == Listing(fs)
       IN IF \E i \in 1..Len(bins) : CmdMatches(bins[i], argv.command)
            THEN \E i \in 1..Len(bins) :
                   /\ CmdMatches(bins[i], argv.command)
                   /\ existing = PathResolve(Bins, bins[i])
            ELSE existing = PathResolve(Bins, bins[1])

\* C6: whenever the locator returns a path, it is the install bin directory
\* joined with a name that the install that just completed put there, read
\* from a listing taken after the stale contents were removed and the
\* install succeeded; and it returns no path when the directory is missing
\* or its listing is empty.
C6_LocatedIsInstalled ==
  /\ (Happened("located") /\ pc # "exited")
       => /\ \E i \in 1..Len(fs.entries) :
               /\ fs.entries[i].fresh
               /\ existing = PathResolve(Bins, fs.entries[i].name)
          /\ \A i \in 1..Len(fs.entries) : fs.entries[i].fresh
  /\ Before("rimrafBins", "installStart")
  /\ Before("installDone", "readdir")
  /\ Before("readdir", "located")
  /\ (Happened("readdir") /\ pc \notin {"readdir", "exited"}
        /\ (~fs.bin \/ fs.entries = <<>>))
       => (~Happened("located") /\ caught # NoErr /\ ~Happened("execCommand"))

\* C6 witness: the locator returned one of two freshly installed binaries
\* and the command was classified.
C6_Witness ==
  /\ Happened("located")
  /\ pc = "strategy"
  /\ Len(fs.entries) = 2
  /\ existing = PathResolve(Bins, fs.entries[1].name)

\* The error lines npx wrote.
Diagnostics == SelectSeq(output, LAMBDA m : m.kind = "error")

\* C7 as stated: when the spawned command fails with an operational error
\* carrying a non-zero exit code n, process.exitCode is n and npx writes no
\* diagnostic; any other failure of the spawn is rethrown and its message
\* is written by the top-level handler.
C7_Original ==
  (Happened("spawn") /\ childErr # NoErr)
    => IF childErr.isOperational /\ childErr.exitCode # 0
         THEN /\ exitCode = childErr.exitCode
              /\ Diagnostics = <<>>
              /\ caught = NoErr
         ELSE /\ caught = childErr
              /\ Diagnostics = <<[stream |-> "stderr", kind |-> "error",
                                  message |-> childErr.message]>>

\* C7 amended: as stated, but the message of any other failure is written
\* by the top-level handler only when the request is not quiet; in quiet
\* mode nothing is written in either case.
C7_ChildFailure ==
  (Happened("spawn") /\ childErr # NoErr)
    => IF childErr.isOperational /\ childErr.exitCode # 0
         THEN /\ exitCode = childErr.exitCode
              /\ Diagnostics = <<>>
              /\ caught = NoErr
         ELSE /\ caught = childErr
              /\ Diagnostics =
                   IF argv.q THEN <<>>
                   ELSE <<[stream |-> "stderr", kind |-> "error",
                           message |-> childErr.message]>>

\* C7 witness: one command failed operationally with exit code 3.
C7_Witness ==
  /\ pc = "exited"
  /\ Happened("childFailed")
  /\ childErr.isOperational
  /\ childErr.exitCode = 3
  /\ exitCode = 3

\* C8 as stated: when `npm install` exits with a non-zero code c, the
\* invocation ends with process.exitCode c and one message naming the
\* requested specifiers and c; neither the locator nor execCommand runs.
C8_Original ==
  (Happened("installFailed") /\ childErr.exitCode # 0)
    => /\ exitCode = childErr.exitCode
       /\ Diagnostics = <<[stream |-> "stderr", kind |-> "error",
                           message |-> [text |-> "Install failed",
                                        about |-> argv.package,
                                        code |-> childErr.exitCode]]>>
       /\ ~Happened("readdir") /\ ~Happened("located")
       /\ ~Happened("execCommand")
       /\ pc \in {"done", "exited"}

\* C8 amended: as stated, but the message naming the specifiers and c is
\* written only when the request is not quiet; in quiet mode the exit code
\* is still c and nothing is written.
C8_InstallFailure ==
  (Happened("installFailed") /\ childErr.exitCode # 0)
    => /\ exitCode = childErr.exitCode
       /\ caught.message = [text |-> "Install failed", about |-> argv.package,
                            code |-> childErr.exitCode]
       /\ Diagnostics =
            IF argv.q THEN <<>>
            ELSE <<[stream |-> "stderr", kind |-> "error",
                    message |-> [text |-> "Install failed",
                                 about |-> argv.package,
                                 code |-> childErr.exitCode]]>>
       /\ ~Happened("readdir") /\ ~Happened("located")
       /\ ~Happened("execCommand")
       /\ ~Happened("ensureDone")
       /\ pc \in {"done", "exited"}

\* C8 witness: an install of two specifiers failed with exit code 3 and
\* the process has exited.
C8_Witness ==
  /\ pc = "exited"
  /\ Happened("installFailed")
  /\ childErr.exitCode = 3
  /\ exitCode = 3
  /\ Len(argv.package) = 2
  /\ ~argv.q

\* C9: getExistingPath resolves with the command itself, without a search,
\* when the request is marked local, whatever the other flags; else with
\* false, without a search, when cmdHadVersion, packageRequested or
\* ignoreExisting is set; else it queries the search path and settles with
\* what was found, with no path on a not-found miss unless install is
\* false, where it fails with exit code 127, and with any other search
\* error as it came.
C9_GetExistingPath ==
  Happened("getExistingPath")
    => IF argv.isLocal
         THEN lookup = Resolved(<<argv.command>>) /\ ~Happened("which")
       ELSE IF argv.cmdHadVersion \/ argv.packageRequested
                 \/ argv.ignoreExisting
         THEN lookup = Resolved(NoPath) /\ ~Happened("which")
       ELSE /\ Count("which") = 1
            /\ \/ lookup.st = "inflight"
               \/ /\ lookup.st = "ok"
                  /\ \E d \in {LocalBin, Ambient} :
                       lookup.val = PathResolve(d, argv.command)
               \/ /\ lookup = Resolved(NoPath)
                  /\ argv.install
               \/ /\ lookup.st = "err"
                  /\ lookup.err.code = "ENOENT"
                  /\ ~argv.install
                  /\ lookup.err.exitCode = NotFoundExit
                  /\ [lookup.err EXCEPT !.exitCode = 0]
                       \in WhichErrors(argv.command)
               \/ /\ lookup.st = "err"
                  /\ lookup.err.code # "ENOENT"
                  /\ lookup.err \in WhichErrors(argv.command)

\* C9 witness: a not-found miss with install disabled ended the invocation
\* with exit code 127.
C9_Witness ==
  /\ pc = "exited"
  /\ Happened("which")
  /\ ~argv.install
  /\ lookup.st = "err"
  /\ lookup.err.exitCode = NotFoundExit
  /\ exitCode = NotFoundExit

\* C10: one execution uses at most one strategy.  The script takes the
\* process over only when findNodeScript resolved with a script, the
\* request does not force a shell and the script is not the running entry
\* script, and process.argv is then the node binary, the script and the
\* forwarded arguments; in every other case in which findNodeScript
\* resolved the command is spawned and process.argv is left alone.
C10_OneStrategy ==
  /\ Count("takeover") + Count("spawn") <= 1
  /\ Happened("takeover")
       => /\ script # NoPath
          /\ ~argv.shell
          /\ script # EntryScript
          /\ procArgv = [node |-> NodeBinary, script |-> script,
                         args |-> argv.cmdOpts]
  /\ Happened("spawn")
       => /\ (script = NoPath \/ argv.shell \/ script = EntryScript)
          /\ procArgv = [node |-> NodeBinary, script |-> EntryScript,
                         args |-> <<"foo">>]
  /\ (Happened("execCommand") /\ pc \in {"child", "done", "exited"})
       => \/ Happened("takeover")
          \/ Happened("spawn")
          \/ (caught # NoErr /\ script = NoPath)

\* C10 witness: an installed script took the process over and ran to its
\* end.
C10_Witness ==
  /\ pc = "exited"
  /\ Happened("takeover")
  /\ Happened("located")
  /\ caught = NoErr

\* C11: whenever the command is spawned and a path was resolved for it (by
\* the search-path lookup, by the local flag or by the locator after an
\* install), the child is started on a resolved path, the one handed to
\* execCommand or the script found in it; the requested command name is
\* handed to the spawn only when no path was resolved.
C11_SpawnsResolved ==
  Happened("spawn")
    => IF existing # NoPath
         THEN child = existing \/ (script # NoPath /\ child = script)
         ELSE child = RunCommandTarget(NoPath, argv)

\* C12: off win32, for a path that is not a local '.js' file (and was not
\* taken for a local directory), findNodeScript reads as many bytes as the
\* line '#!/usr/bin/env node\n' has, from the start of the file, and
\* settles with the path if and only if the file starts with exactly those
\* bytes; a file that is shorter or differs in case or whitespace is
\* settled as no script.
C12_ShebangExact ==
  [][pc = "sniffed"
       => /\ ~win32
          /\ ~(argv.isLocal /\ ExtIsJs(cls.target))
          /\ Len(buf) = 20
          /\ \A i \in 1..20 : i <= Len(file) => buf[i] = file[i]
          /\ pc' # "sniffed"
               => IF /\ Len(file) >= 20
                     /\ \A i \in 1..20 : file[i] = ShebangLine[i]
                    THEN script' = cls.target /\ pc' = "strategy"
                    ELSE /\ script' = NoPath
                         /\ \/ pc' = "strategy"
                            \/ /\ cls.depth > 0
                               /\ caught'.message.text = "command not found"]_vars

\* C12 witness: a file that goes on after the line was read, and the buffer
\* holds exactly the line.
C12_Witness ==
  /\ pc = "sniffed"
  /\ Len(file) > 20
  /\ buf = ShebangLine
  /\ cls.target = existing

\* C13: when the classification of a local directory fails with 'command
\* not found', because a manifest cannot be used or because the
\* classification of the declared entry point yields nothing, the message
\* names a directory that was passed in (the one handed to execCommand, or
\* the directory whose manifest was read), never the entry-point path
\* derived from a manifest.
C13_NamesDirectory ==
  [][(/\ pc \in {"stat", "sniffed"}
      /\ argv.isLocal
      /\ caught = NoErr /\ caught' # NoErr
      /\ caught'.message.text = "command not found")
       => caught'.message.about
            \in {existing} \cup (IF pc = "stat" THEN {cls.target} ELSE {})]_vars

\* C14: every 'command not found' failure of the pipeline (a search-path
\* miss with installation disabled, a missing install bin directory in the
\* locator, a local directory package that resolves to no script) ends the
\* invocation with process exit code 127.
C14_NotFoundExits127 ==
  (/\ caught # NoErr
   /\ \/ caught.message.text = "command not found"
      \/ (lookup.st = "err" /\ caught = lookup.err /\ caught.code = "ENOENT"))
    => exitCode = NotFoundExit

\* C15: when a stage of the pipeline fails (the project-local bin path, the
\* existing-path lookup, the environment capture, the install, the locator,
\* the classification, a spawn failure that is not the command's own
\* result), the invocation ends with process.exitCode set to the code
\* attached to the error, or to 1 when none is attached, and with exactly
\* one diagnostic line, which is left out in quiet mode while the exit code
\* is still set.
C15_FailureReported ==
  (pc \in {"done", "exited"} /\ (rejected \/ caught # NoErr))
    => /\ caught # NoErr
       /\ exitCode = IF caught.exitCode # 0 THEN caught.exitCode ELSE 1
       /\ Diagnostics =
            IF argv.q THEN <<>>
            ELSE <<[stream |-> "stderr", kind |-> "error",
                    message |-> caught.message]>>

\* C16: in every interleaving of the existing-path lookup and the
\* environment capture, the install decision and the replacement of
\* process.env are made only when both have resolved, and not at all once
\* either has failed; and process.env is never written (replaced, or its
\* PATH prefixed) while the lookup, the capture or a package-manager
\* operation that reads it is in flight.
C16_WritesAfterBoth ==
  [][/\ env' # env
          => /\ lookup.st # "inflight"
             /\ envcap.st # "inflight"
             /\ pc \notin {"cache", "whichNpm", "install"}
     /\ (pc = "await" /\ pc' \in {"cache", "exec"})
          => (lookup.st = "ok" /\ envcap.st = "ok")
     /\ (env'.lifecycle /\ ~env.lifecycle)
          => (lookup.st = "ok" /\ envcap.st = "ok" /\ pc = "await")
     /\ (lookup.st = "err" \/ envcap.st = "err")
          => /\ env' = env
             /\ ~env.lifecycle
             /\ pc' \notin {"cache", "exec"}
             /\ ~Happened("ensurePackages")']_vars

\* C16 witness: the search and the capture ran side by side, both
\* resolved, and the lifecycle environment replaced process.env before the
\* command was spawned.
C16_Witness ==
  /\ pc = "exited"
  /\ Happened("which") /\ Happened("getEnv")
  /\ Happened("replaceEnv")
  /\ env.lifecycle
  /\ lookup.st = "ok" /\ lookup.val # NoPath
  /\ Happened("spawn")

\* C17: ensurePackages prepends the install bin directory to PATH exactly
\* once, and only after the install has succeeded: no step of it before
\* that writes process.env, so when the cache lookup, the removal of the
\* stale contents or the install fails PATH is as it was when
\* ensurePackages was called.
C17_PrefixOnlyOnSuccess ==
  [][/\ pc \in {"cache", "rimraf", "whichNpm", "install"} => env' = env
     /\ (pc = "installed" /\ pc' # "installed")
          => /\ env'.PATH = <<Bins>> \o PathString(env)
             /\ \A i \in 1..Len(env.PATH) : env.PATH[i] # Bins
             /\ Happened("installDone")
     /\ env' # env
          => \/ pc = "installed"
             \/ \A i \in 1..Len(env'.PATH) : env'.PATH[i] # Bins]_vars

\* C17 witness: the install failed after the stale contents were removed,
\* and the invocation ended with the PATH that the project-local directory
\* was prepended to, without the install bin directory.
C17_Witness ==
  /\ pc = "exited"
  /\ Happened("rimrafBins")
  /\ Happened("installFailed")
  /\ env.PATH = <<LocalBin, Ambient>>

\* C18: the exit cleanup of the private install root never throws past its
\* own boundary: whenever the exit listener has run, the process has exited
\* and no error has left the listener, whether the root was still there,
\* already removed, or could not be removed.
C18_CleanupNeverThrows ==
  Happened("exitListener") => (pc = "exited" /\ uncaught = NoErr)

\* C19: the classification of a local directory terminates for every
\* manifest.  A directory's manifest is the same every time it is read, so
\* the recursion ends after a bounded number of steps exactly when no
\* recursive call of findNodeScript is made on a path that is already being
\* classified: every recursive step moves on to another path.
C19_RecursionMovesOn ==
  [][(pc = "stat" /\ cls'.depth = cls.depth + 1)
       => cls'.target # cls.target]_vars

\* C20: when the request disables the fallback installation (install ===
\* false), ensurePackages is never invoked, whatever the other flags are:
\* no install is started, and a command that was executed had been found
\* without one.
C20_NoInstallNeverInstalls ==
  ~argv.install
    => /\ ~Happened("ensurePackages")
       /\ ~Happened("installStart")
       /\ Happened("execCommand") => ~Happened("ensureDone")

====
